---- MODULE Spec2Model ----
(***************************************************************************)
(* Expense Tracker API (FastAPI + SQLAlchemy): the relational store (users, *)
(* categories, expenses) and one action per request handler of             *)
(* app/routers/auth.py, app/routers/category.py and app/routers/expense.py.*)
(* Every handler action records the request it served and the response it  *)
(* produced in resp, so that properties of responses are state properties  *)
(* and frame properties are action properties over (resp', store, store'). *)
(*                                                                         *)
(* Nullable values are sequences of length at most one: <<>> is None/NULL  *)
(* and <<v>> is the value v.  Dates are day numbers, amounts are integers. *)
(* Row timestamps, and the description/icon/color of a category, take no   *)
(* part in any handler's control flow and are left out of the rows.        *)
(*                                                                         *)
(* spent is the history of the refresh tokens that refresh accepted (a     *)
(* bag: one copy per acceptance); the server keeps no such record, so no   *)
(* handler reads or writes it: the runs that follow token reuse record it  *)
(* beside the refresh step.  inflight holds the requests that concurrent   *)
(* workers serve step by step, and sessions the database sessions that are *)
(* open; a handler action that serves its request in one step opens and    *)
(* closes its session within the step.                                     *)
(***************************************************************************)
EXTENDS Integers, Sequences, FiniteSets, Bags, TLC

VARIABLES users, categories, expenses, now, ticks, held, resp,
          spent, inflight, sessions

vars == <<users, categories, expenses, now, ticks, held, resp,
          spent, inflight, sessions>>

store == <<users, categories, expenses>>

(***************************************************************************)
(* Bounds and input domains.                                               *)
(***************************************************************************)
\* highest expense id the store hands out
MaxExpenseId == 2

\* highest expense id the store hands out in the pagination runs
MaxPageExpenseId == 3

\* highest expense id the store hands out in the update runs
MaxUpdateExpenseId == 1

\* number of clock advances in a run
MaxTicks == 2

\* number of refresh requests accepted in a run
MaxRefreshes == 2

\* number of workers serving requests concurrently
MaxWorkers == 2

Workers == 1..MaxWorkers

\* a worker with no request
Idle == [pc |-> "idle"]

Emails == {"a@x.io", "b@x.io"}

UnknownEmail == "z@x.io"

Usernames == {"ann", "bob"}

Passwords == {"pw-one-1", "pw-two-2"}

Salts == {"s1"}

CategoryNames == {"Food", "Rent", "food"}

None == <<>>

Some(v) == <<v>>

\* app/config.py
ACCESS_TOKEN_EXPIRE_MINUTES == 30

REFRESH_TOKEN_EXPIRE_DAYS == 7

MinutesPerDay == 24 * 60

SECRET_KEY == "secret"

BearerHeaders == [WWW_Authenticate |-> "Bearer"]

NoHeaders == [none |-> TRUE]

(***************************************************************************)
(* Store helpers.                                                          *)
(***************************************************************************)
SetMax(S) == CHOOSE m \in S : \A x \in S : x <= m

\* Integer primary key without AUTOINCREMENT: one more than the largest id.
NextId(rows) == IF rows = {} THEN 1 ELSE SetMax({r.id : r \in rows}) + 1

\* Query(...).filter(pred).first(): the matching row (the filters used by the
\* handlers are on unique columns, so there is at most one) or None.
First(rows) == IF rows = {} THEN None ELSE Some(CHOOSE r \in rows : TRUE)

(***************************************************************************)
(* str(user.id) and int(sub): decimal text of small naturals.              *)
(***************************************************************************)
Digits == <<"0", "1", "2", "3", "4", "5", "6", "7", "8", "9">>

str(n) == Digits[n + 1]

\* int(s): Some(n) when s is the decimal text of n, None on ValueError.
int(s) == IF \E n \in 0..9 : Digits[n + 1] = s
          THEN Some(CHOOSE n \in 0..9 : Digits[n + 1] = s)
          ELSE None

(***************************************************************************)
(* app/utils/security.py (password hashing and JWT issue/verify).          *)
(***************************************************************************)
\* salted one-way hash: the digest binds the salt and the password
get_password_hash(password, salt) == [salt |-> salt, digest |-> <<salt, password>>]

verify_password(password, hashed) == hashed.digest = <<hashed.salt, password>>

\* a signed token: the claim set and the key that signed it
Sign(claims, key) == [claims |-> claims, key |-> key]

create_access_token(data) ==
    Sign([sub |-> data.sub, email |-> data.email, token_type |-> "access",
          exp |-> now + ACCESS_TOKEN_EXPIRE_MINUTES], SECRET_KEY)

create_refresh_token(data) ==
    Sign([sub |-> data.sub, email |-> data.email, token_type |-> "refresh",
          exp |-> now + REFRESH_TOKEN_EXPIRE_DAYS * MinutesPerDay], SECRET_KEY)

\* the claims when the signature verifies and the expiry has not passed, else None
decode_token(token) ==
    IF token.key = SECRET_KEY
       /\ ("exp" \in DOMAIN token.claims => now <= token.claims.exp)
    THEN Some(token.claims)
    ELSE None

\* payload.get(k)
Get(payload, k) == IF k \in DOMAIN payload THEN Some(payload[k]) ELSE None

(***************************************************************************)
(* Responses.                                                              *)
(***************************************************************************)
Response(op, caller, req, status, detail, headers, body) ==
    [op |-> op, caller |-> caller, req |-> req, status |-> status,
     detail |-> detail, headers |-> headers, body |-> body]

\* raise HTTPException(status_code, detail, headers)
HTTPException(status, detail, headers) ==
    [status |-> status, detail |-> detail, headers |-> headers, body |-> None]

Ok(status, body) ==
    [status |-> status, detail |-> "", headers |-> NoHeaders, body |-> Some(body)]

Reply(op, caller, req, r) ==
    Response(op, caller, req, r.status, r.detail, r.headers, r.body)

\* a step of the environment (the clock, an out-of-band store write): no response
Event(kind) == Response(kind, 0, None, 0, "", NoHeaders, None)

Init ==
    /\ users = {}
    /\ categories = {}
    /\ expenses = {}
    /\ now = 0
    /\ ticks = 0
    /\ held = None
    /\ resp = Response("none", 0, None, 0, "", NoHeaders, None)
    /\ spent = EmptyBag
    /\ inflight = [w \in Workers |-> Idle]
    /\ sessions = EmptyBag

(***************************************************************************)
(* app/routers/auth.py                                                     *)
(***************************************************************************)
\* UserResponse: the public view of a user row (never the hash)
UserResponse(u) ==
    [id |-> u.id, email |-> u.email, username |-> u.username,
     is_active |-> u.is_active, is_verified |-> u.is_verified]

existing_email(user_data) == First({u \in users : u.email = user_data.email})

existing_username_unchecked(user_data) == None

existing_username(user_data) == First({u \in users : u.username = user_data.username})

\* User(email=..., username=..., hashed_password=...) with the column defaults
new_user(user_data, salt) ==
    [id |-> NextId(users), email |-> user_data.email, username |-> user_data.username,
     hashed_password |-> get_password_hash(user_data.password, salt),
     is_active |-> TRUE, is_verified |-> FALSE]

\* the unique constraints on users.email and users.username, checked at commit
UserInsertAllowed(u) ==
    \A v \in users : v.email # u.email /\ v.username # u.username /\ v.id # u.id

\* POST /auth/register
register(user_data, salt) ==
    /\ IF existing_email(user_data) # None
       THEN /\ resp' = Reply("register", 0, user_data,
                             HTTPException(400, "Email already registered", NoHeaders))
            /\ users' = users
       ELSE IF existing_username(user_data) # None
       THEN /\ resp' = Reply("register", 0, user_data,
                             HTTPException(400, "Username already taken", NoHeaders))
            /\ users' = users
       ELSE IF ~UserInsertAllowed(new_user(user_data, salt))
       THEN /\ resp' = Reply("register", 0, user_data,
                             HTTPException(500, "Internal Server Error", NoHeaders))
            /\ users' = users
       ELSE /\ users' = users \cup {new_user(user_data, salt)}
            /\ resp' = Reply("register", 0, user_data,
                             Ok(201, UserResponse(new_user(user_data, salt))))
    /\ UNCHANGED <<categories, expenses, now, ticks, held, spent, inflight, sessions>>

TokenPair_expires_in_minutes(user) ==
    LET token_data == [sub |-> str(user.id), email |-> user.email]
    IN  [access_token |-> create_access_token(token_data),
         refresh_token |-> create_refresh_token(token_data),
         token_type |-> "bearer",
         expires_in |-> ACCESS_TOKEN_EXPIRE_MINUTES]

\* the Token body issued by login and refresh for a user row
TokenPair(user) ==
    LET token_data == [sub |-> str(user.id), email |-> user.email]
    IN  [access_token |-> create_access_token(token_data),
         refresh_token |-> create_refresh_token(token_data),
         token_type |-> "bearer",
         expires_in |-> ACCESS_TOKEN_EXPIRE_MINUTES * 60]

login_response_active_first(user_credentials) ==
    LET user == First({u \in users : u.email = user_credentials.email})
    IN  IF user # None /\ ~user[1].is_active
        THEN HTTPException(403, "User account is inactive", NoHeaders)
        ELSE IF user = None
                \/ ~verify_password(user_credentials.password, user[1].hashed_password)
        THEN HTTPException(401, "Incorrect email or password", BearerHeaders)
        ELSE Ok(200, TokenPair(user[1]))

login_response(user_credentials) ==
    LET user == First({u \in users : u.email = user_credentials.email})
    IN  IF user = None
           \/ ~verify_password(user_credentials.password, user[1].hashed_password)
        THEN HTTPException(401, "Incorrect email or password", BearerHeaders)
        ELSE IF ~user[1].is_active
        THEN HTTPException(403, "User account is inactive", NoHeaders)
        ELSE Ok(200, TokenPair(user[1]))

\* POST /auth/login
login(user_credentials) ==
    LET r == login_response(user_credentials)
    IN  /\ resp' = Reply("login", 0, user_credentials, r)
        /\ held' = IF r.status = 200 THEN r.body ELSE held
        /\ UNCHANGED <<users, categories, expenses, now, ticks,
                       spent, inflight, sessions>>

token_type_rejected_never(payload) == FALSE

\* token_type = payload.get("token_type"); if token_type != "refresh"
token_type_rejected(payload) == Get(payload, "token_type") # Some("refresh")

refresh_response_single_use(token_request) ==
    LET payload == decode_token(token_request.refresh_token)
    IN  IF payload = None \/ BagIn(token_request.refresh_token, spent)
        THEN HTTPException(401, "Invalid refresh token", BearerHeaders)
        ELSE IF token_type_rejected(payload[1])
        THEN HTTPException(401, "Invalid token type. Refresh token required.",
                           BearerHeaders)
        ELSE LET user_id_str == Get(payload[1], "sub")
                 user_id == IF user_id_str = None THEN None ELSE int(user_id_str[1])
                 user == IF user_id = None THEN None
                         ELSE First({u \in users : u.id = user_id[1]})
             IN  IF user_id = None
                 THEN HTTPException(401, "Invalid token payload", BearerHeaders)
                 ELSE IF user = None
                 THEN HTTPException(401, "User not found", BearerHeaders)
                 ELSE IF ~user[1].is_active
                 THEN HTTPException(403, "User account is inactive", NoHeaders)
                 ELSE Ok(200, TokenPair(user[1]))

refresh_response_type_last(token_request) ==
    LET payload == decode_token(token_request.refresh_token)
    IN  IF payload = None
        THEN HTTPException(401, "Invalid refresh token", BearerHeaders)
        ELSE LET user_id_str == Get(payload[1], "sub")
                 user_id == IF user_id_str = None THEN None ELSE int(user_id_str[1])
                 user == IF user_id = None THEN None
                         ELSE First({u \in users : u.id = user_id[1]})
             IN  IF user_id = None
                 THEN HTTPException(401, "Invalid token payload", BearerHeaders)
                 ELSE IF user = None
                 THEN HTTPException(401, "User not found", BearerHeaders)
                 ELSE IF ~user[1].is_active
                 THEN HTTPException(403, "User account is inactive", NoHeaders)
                 ELSE IF token_type_rejected(payload[1])
                 THEN HTTPException(401, "Invalid token type. Refresh token required.",
                                    BearerHeaders)
                 ELSE Ok(200, TokenPair(user[1]))

refresh_response(token_request) ==
    LET payload == decode_token(token_request.refresh_token)
    IN  IF payload = None
        THEN HTTPException(401, "Invalid refresh token", BearerHeaders)
        ELSE IF token_type_rejected(payload[1])
        THEN HTTPException(401, "Invalid token type. Refresh token required.",
                           BearerHeaders)
        ELSE LET user_id_str == Get(payload[1], "sub")
             IN  IF user_id_str = None
                 THEN HTTPException(401, "Invalid token payload", BearerHeaders)
                 ELSE LET user_id == int(user_id_str[1])
                      IN  IF user_id = None
                          THEN HTTPException(401, "Invalid token payload", BearerHeaders)
                          ELSE LET user == First({u \in users : u.id = user_id[1]})
                               IN  IF user = None
                                   THEN HTTPException(401, "User not found",
                                                      BearerHeaders)
                                   ELSE IF ~user[1].is_active
                                   THEN HTTPException(403, "User account is inactive",
                                                      NoHeaders)
                                   ELSE Ok(200, TokenPair(user[1]))

\* POST /auth/refresh
refresh_token(token_request) ==
    LET r == refresh_response(token_request)
    IN  /\ resp' = Reply("refresh", 0, token_request, r)
        /\ held' = IF r.status = 200 THEN r.body ELSE held
        /\ UNCHANGED <<users, categories, expenses, now, ticks, inflight, sessions>>

(***************************************************************************)
(* Environment: the clock, and the is_active flag of a user row written    *)
(* out of band (no handler writes it).                                     *)
(***************************************************************************)
TickSteps == {ACCESS_TOKEN_EXPIRE_MINUTES + 1, REFRESH_TOKEN_EXPIRE_DAYS * MinutesPerDay}

Tick(d) ==
    /\ ticks < MaxTicks
    /\ now' = now + d
    /\ ticks' = ticks + 1
    /\ resp' = Event("tick")
    /\ UNCHANGED <<users, categories, expenses, held, spent, inflight, sessions>>

DeactivateUser(id) ==
    /\ \E u \in users : u.id = id /\ u.is_active
    /\ users' = {IF u.id = id THEN [u EXCEPT !.is_active = FALSE] ELSE u : u \in users}
    /\ resp' = Event("deactivate_user")
    /\ UNCHANGED <<categories, expenses, now, ticks, held, spent, inflight, sessions>>

(***************************************************************************)
(* Requests of the authentication runs.                                    *)
(***************************************************************************)
RegisterInputs ==
    [email : Emails, username : Usernames, password : Passwords]

LoginInputs ==
    [email : Emails \cup {UnknownEmail}, password : Passwords]

FarFuture == 4 * REFRESH_TOKEN_EXPIRE_DAYS * MinutesPerDay

\* tokens not issued by this server run: every shape of claim set, under the
\* server's key (a token of an earlier run) and one under another key
ForeignClaims ==
    UNION { {[sub |-> s, email |-> "a@x.io", token_type |-> t, exp |-> e],
             [email |-> "a@x.io", token_type |-> t, exp |-> e],
             [sub |-> s, email |-> "a@x.io", exp |-> e]} :
            s \in {"1", "9", "abc"}, t \in {"access", "refresh"}, e \in {0, FarFuture} }

ForeignTokens ==
    {Sign(c, SECRET_KEY) : c \in ForeignClaims}
        \cup {Sign([sub |-> "1", email |-> "a@x.io", token_type |-> "refresh",
                    exp |-> FarFuture], "another-key")}

HeldTokens ==
    IF held = None THEN {} ELSE {held[1].access_token, held[1].refresh_token}

NextAuth ==
    \/ \E d \in RegisterInputs, s \in Salts : register(d, s)
    \/ \E c \in LoginInputs : login(c)
    \/ \E t \in HeldTokens \cup ForeignTokens :
          refresh_token([refresh_token |-> t]) /\ UNCHANGED spent
    \/ \E d \in TickSteps : Tick(d)
    \/ \E u \in users : DeactivateUser(u.id)

SpecAuth == Init /\ [][NextAuth]_vars

(***************************************************************************)
(* app/utils/deps.py: Depends(get_current_user) hands the handler the user *)
(* row the bearer token resolves to; a request whose token resolves to no  *)
(* user never reaches the handler.                                         *)
(***************************************************************************)
current_users == users

(***************************************************************************)
(* app/routers/category.py                                                 *)
(***************************************************************************)
CategoryResponse(c) == [id |-> c.id, name |-> c.name, is_active |-> c.is_active]

\* the unique constraint on categories.name, checked at commit
CategoryInsertAllowed(c) == \A d \in categories : d.name # c.name /\ d.id # c.id

create_category_among_active(category_data, current_user) ==
    LET existing == First({c \in categories :
                              c.name = category_data.name /\ c.is_active})
        new_category == [id |-> NextId(categories), name |-> category_data.name,
                         is_active |-> TRUE]
    IN  /\ IF existing # None
           THEN /\ resp' = Reply("create_category", current_user.id, category_data,
                                 HTTPException(400, "Category '" \o category_data.name
                                                    \o "' already exists", NoHeaders))
                /\ categories' = categories
           ELSE IF ~CategoryInsertAllowed(new_category)
           THEN /\ resp' = Reply("create_category", current_user.id, category_data,
                                 HTTPException(500, "Internal Server Error", NoHeaders))
                /\ categories' = categories
           ELSE /\ categories' = categories \cup {new_category}
                /\ resp' = Reply("create_category", current_user.id, category_data,
                                 Ok(201, CategoryResponse(new_category)))
        /\ UNCHANGED <<users, expenses, now, ticks, held, spent, inflight, sessions>>

\* POST /categories
create_category(category_data, current_user) ==
    LET existing == First({c \in categories : c.name = category_data.name})
        new_category == [id |-> NextId(categories), name |-> category_data.name,
                         is_active |-> TRUE]
    IN  /\ IF existing # None
           THEN /\ resp' = Reply("create_category", current_user.id, category_data,
                                 HTTPException(400, "Category '" \o category_data.name
                                                    \o "' already exists", NoHeaders))
                /\ categories' = categories
           ELSE IF ~CategoryInsertAllowed(new_category)
           THEN /\ resp' = Reply("create_category", current_user.id, category_data,
                                 HTTPException(500, "Internal Server Error", NoHeaders))
                /\ categories' = categories
           ELSE /\ categories' = categories \cup {new_category}
                /\ resp' = Reply("create_category", current_user.id, category_data,
                                 Ok(201, CategoryResponse(new_category)))
        /\ UNCHANGED <<users, expenses, now, ticks, held, spent, inflight, sessions>>

\* the store's ordering of names (binary collation: upper case before lower case)
NameOrder == <<"Food", "Rent", "food">>

NameRank(name) == CHOOSE i \in 1..Len(NameOrder) : NameOrder[i] = name

\* the sequences that list every row of rows once
Listings(rows) ==
    {s \in [1..Cardinality(rows) -> rows] : \A i, j \in DOMAIN s : i # j => s[i] # s[j]}

\* order_by(Category.name): names are unique, so the order is total
OrderByName(rows) ==
    CHOOSE s \in Listings(rows) :
        \A i, j \in DOMAIN s : i < j => NameRank(s[i].name) < NameRank(s[j].name)

category_listed_all(c, include_inactive) == TRUE

\* if not include_inactive: query.filter(Category.is_active == True)
category_listed(c, include_inactive) == include_inactive \/ c.is_active

\* GET /categories
get_categories(include_inactive, current_user) ==
    LET rows == {c \in categories : category_listed(c, include_inactive)}
        listed == OrderByName(rows)
    IN  /\ resp' = Reply("get_categories", current_user.id,
                         [include_inactive |-> include_inactive],
                         Ok(200, [i \in DOMAIN listed |-> CategoryResponse(listed[i])]))
        /\ UNCHANGED <<users, categories, expenses, now, ticks, held,
                       spent, inflight, sessions>>

\* the is_active flag of a category row written out of band (soft deactivation;
\* no handler writes it)
DeactivateCategory(id) ==
    /\ \E c \in categories : c.id = id /\ c.is_active
    /\ categories' =
          {IF c.id = id THEN [c EXCEPT !.is_active = FALSE] ELSE c : c \in categories}
    /\ resp' = Event("deactivate_category")
    /\ UNCHANGED <<users, expenses, now, ticks, held, spent, inflight, sessions>>

(***************************************************************************)
(* app/routers/expense.py                                                  *)
(***************************************************************************)
\* the category relationship of an expense row
category_of(e) == First({c \in categories : c.id = e.category_id})

ExpenseResponse(e) == e

ExpenseWithCategory(e) ==
    [id |-> e.id, amount |-> e.amount, category_id |-> e.category_id,
     description |-> e.description, date |-> e.date, notes |-> e.notes,
     user_id |-> e.user_id,
     category |-> IF category_of(e) = None THEN None
                  ELSE Some(CategoryResponse(category_of(e)[1]))]

\* db.query(Category).filter(Category.id == category_id).first()
category_found(category_id) == First({c \in categories : c.id = category_id})

category_usable_always(category) == TRUE

new_expense_without_notes(expense_data, current_user) ==
    [id |-> NextId(expenses), amount |-> expense_data.amount,
     category_id |-> expense_data.category_id,
     description |-> expense_data.description, date |-> expense_data.date,
     notes |-> None, user_id |-> current_user.id]

\* if not category.is_active: raise 400
category_usable(category) == category.is_active

\* Expense(amount=..., category_id=..., description=..., date=..., notes=...,
\*         user_id=current_user.id)
new_expense(expense_data, current_user) ==
    [id |-> NextId(expenses), amount |-> expense_data.amount,
     category_id |-> expense_data.category_id,
     description |-> expense_data.description, date |-> expense_data.date,
     notes |-> expense_data.notes, user_id |-> current_user.id]

\* POST /expenses
create_expense(expense_data, current_user) ==
    LET category == category_found(expense_data.category_id)
    IN  /\ IF category = None
           THEN /\ resp' = Reply("create_expense", current_user.id, expense_data,
                                 HTTPException(404, "Category with id "
                                     \o str(expense_data.category_id) \o " not found",
                                     NoHeaders))
                /\ expenses' = expenses
           ELSE IF ~category_usable(category[1])
           THEN /\ resp' = Reply("create_expense", current_user.id, expense_data,
                                 HTTPException(400,
                                     "Cannot create expense with inactive category",
                                     NoHeaders))
                /\ expenses' = expenses
           ELSE /\ expenses' = expenses \cup {new_expense(expense_data, current_user)}
                /\ resp' = Reply("create_expense", current_user.id, expense_data,
                                 Ok(201, ExpenseResponse(
                                             new_expense(expense_data, current_user))))
        /\ UNCHANGED <<users, categories, now, ticks, held, spent, inflight, sessions>>

owned_expense_any_owner(expense_id, current_user) ==
    First({e \in expenses : e.id = expense_id})

\* db.query(Expense).filter(Expense.id == expense_id,
\*                          Expense.user_id == current_user.id).first()
owned_expense(expense_id, current_user) ==
    First({e \in expenses : e.id = expense_id /\ e.user_id = current_user.id})

\* GET /expenses/{expense_id}
get_expense(expense_id, current_user) ==
    LET expense == owned_expense(expense_id, current_user)
    IN  /\ resp' = Reply("get_expense", current_user.id, [expense_id |-> expense_id],
                         IF expense = None
                         THEN HTTPException(404, "Expense not found", NoHeaders)
                         ELSE Ok(200, ExpenseWithCategory(expense[1])))
        /\ UNCHANGED <<users, categories, expenses, now, ticks, held,
                       spent, inflight, sessions>>

UpdateFields == {"amount", "category_id", "description", "date", "notes"}

ExpenseUpdate_extra_allowed(json) ==
    [x \in {"fields_set"} \cup UpdateFields \cup DOMAIN json |->
        IF x = "fields_set" THEN DOMAIN json
        ELSE IF x \in DOMAIN json THEN json[x] ELSE None]

\* ExpenseUpdate parsed from a JSON body: every field defaults to None, and
\* fields_set (pydantic's model_fields_set) names the fields of the schema
\* that the body carries, an explicit null among them; a key of the body that
\* is no field of the schema is ignored
ExpenseUpdate(json) ==
    [fields_set |-> DOMAIN json \cap UpdateFields,
     amount |-> IF "amount" \in DOMAIN json THEN json.amount ELSE None,
     category_id |-> IF "category_id" \in DOMAIN json THEN json.category_id ELSE None,
     description |-> IF "description" \in DOMAIN json THEN json.description ELSE None,
     date |-> IF "date" \in DOMAIN json THEN json.date ELSE None,
     notes |-> IF "notes" \in DOMAIN json THEN json.notes ELSE None]

update_data_all_fields(expense_data) == [f \in UpdateFields |-> expense_data[f]]

\* expense_data.model_dump(exclude_unset=True)
update_data(expense_data) == [f \in expense_data.fields_set |-> expense_data[f]]

\* for field, value in update_data.items(): setattr(expense, field, value)
\* every column as a nullable value
setattrs(expense, data) ==
    [id |-> IF "id" \in DOMAIN data THEN data.id ELSE Some(expense.id),
     user_id |-> IF "user_id" \in DOMAIN data THEN data.user_id
                 ELSE Some(expense.user_id),
     amount |-> IF "amount" \in DOMAIN data THEN data.amount ELSE Some(expense.amount),
     category_id |-> IF "category_id" \in DOMAIN data THEN data.category_id
                     ELSE Some(expense.category_id),
     description |-> IF "description" \in DOMAIN data THEN data.description
                     ELSE Some(expense.description),
     date |-> IF "date" \in DOMAIN data THEN data.date ELSE Some(expense.date),
     notes |-> IF "notes" \in DOMAIN data THEN data.notes ELSE expense.notes]

\* the primary key, and nullable=False on amount, category_id, description,
\* date and user_id, checked at commit
NotNullHolds(cols) ==
    cols.amount # None /\ cols.category_id # None /\ cols.description # None
        /\ cols.date # None /\ cols.id # None /\ cols.user_id # None

\* the row the commit writes
updated_row(expense, cols) ==
    [id |-> cols.id[1], amount |-> cols.amount[1], category_id |-> cols.category_id[1],
     description |-> cols.description[1], date |-> cols.date[1], notes |-> cols.notes,
     user_id |-> cols.user_id[1]]

revalidated_always(expense, expense_data) ==
    IF expense_data.category_id # None THEN expense_data.category_id
    ELSE Some(expense.category_id)

\* if expense_data.category_id is not None: the category id that is looked up
\* before the update, None when the body gives none
revalidated(expense, expense_data) == expense_data.category_id

rolled_back_in_part(rows, expense, cols) ==
    (rows \ {expense})
        \cup {[expense EXCEPT
                 !.amount = IF cols.amount = None THEN @ ELSE cols.amount[1],
                 !.category_id = IF cols.category_id = None THEN @
                                 ELSE cols.category_id[1],
                 !.description = IF cols.description = None THEN @
                                 ELSE cols.description[1],
                 !.date = IF cols.date = None THEN @ ELSE cols.date[1],
                 !.notes = cols.notes]}

\* db.commit() raises: the attributes set on the row stay in the session, which
\* get_db closes without a commit, so the store keeps the rows it had
rolled_back(rows, expense, cols) == rows

\* PUT /expenses/{expense_id}
update_expense(expense_id, expense_data, current_user) ==
    LET expense == owned_expense(expense_id, current_user)
        req == [expense_id |-> expense_id, body |-> expense_data]
        fail(status, detail) ==
            /\ resp' = Reply("update_expense", current_user.id, req,
                             HTTPException(status, detail, NoHeaders))
            /\ expenses' = expenses
    IN  /\ IF expense = None
           THEN fail(404, "Expense not found")
           ELSE IF revalidated(expense[1], expense_data) # None
                   /\ category_found(revalidated(expense[1], expense_data)[1]) = None
           THEN fail(404, "Category with id "
                              \o str(revalidated(expense[1], expense_data)[1])
                              \o " not found")
           ELSE IF revalidated(expense[1], expense_data) # None
                   /\ ~category_usable(
                          category_found(revalidated(expense[1], expense_data)[1])[1])
           THEN fail(400, "Cannot update expense with inactive category")
           ELSE LET cols == setattrs(expense[1], update_data(expense_data))
                IN  IF ~NotNullHolds(cols)
                    THEN /\ resp' = Reply("update_expense", current_user.id, req,
                                          HTTPException(500, "Internal Server Error",
                                                        NoHeaders))
                         /\ expenses' = rolled_back(expenses, expense[1], cols)
                    ELSE /\ expenses' = (expenses \ {expense[1]})
                                           \cup {updated_row(expense[1], cols)}
                         /\ resp' = Reply("update_expense", current_user.id, req,
                                          Ok(200, ExpenseResponse(
                                                      updated_row(expense[1], cols))))
        /\ UNCHANGED <<users, categories, now, ticks, held, spent, inflight, sessions>>

\* DELETE /expenses/{expense_id}
delete_expense(expense_id, current_user) ==
    LET expense == owned_expense(expense_id, current_user)
        req == [expense_id |-> expense_id]
    IN  /\ IF expense = None
           THEN /\ resp' = Reply("delete_expense", current_user.id, req,
                                 HTTPException(404, "Expense not found", NoHeaders))
                /\ expenses' = expenses
           ELSE /\ expenses' = expenses \ {expense[1]}
                /\ resp' = Reply("delete_expense", current_user.id, req,
                                 [status |-> 204, detail |-> "", headers |-> NoHeaders,
                                  body |-> None])
        /\ UNCHANGED <<users, categories, now, ticks, held, spent, inflight, sessions>>

\* Python truth of an optional int query parameter: None and 0 are false
TruthyInt(v) == v # None /\ v[1] # 0

\* Python truth of an optional date query parameter: every date is true
TruthyDate(v) == v # None

\* if category_id:
category_filter_applies(category_id) == TruthyInt(category_id)

\* the query of get_user_expenses before order_by/offset/limit
filtered_query(q, current_user) ==
    {e \in expenses :
        /\ e.user_id = current_user.id
        /\ (category_filter_applies(q.category_id) => e.category_id = q.category_id[1])
        /\ (TruthyDate(q.start_date) => e.date >= q.start_date[1])
        /\ (TruthyDate(q.end_date) => e.date <= q.end_date[1])
        /\ (q.min_amount # None => e.amount >= q.min_amount[1])
        /\ (q.max_amount # None => e.amount <= q.max_amount[1])}

\* order_by(Expense.date.desc()) holds of a listing
date_order(s) == \A i, j \in DOMAIN s : i < j => s[i].date >= s[j].date

\* the orders the store may return the rows in: date descending, rows of equal
\* date in any order
OrderByDateDesc(rows) == {s \in Listings(rows) : date_order(s)}

Min(a, b) == IF a <= b THEN a ELSE b

page_limit_then_offset(s, skip, limit) == SubSeq(s, limit + 1, Min(Len(s), limit + skip))

\* .offset(skip).limit(limit)
page(s, skip, limit) == SubSeq(s, skip + 1, Min(Len(s), skip + limit))

\* GET /expenses
get_user_expenses(q, current_user) ==
    \E ordered \in OrderByDateDesc(filtered_query(q, current_user)) :
        LET rows == page(ordered, q.skip, q.limit)
        IN  /\ resp' = Reply("get_user_expenses", current_user.id, q,
                             Ok(200, [i \in DOMAIN rows |-> ExpenseWithCategory(rows[i])]))
            /\ UNCHANGED <<users, categories, expenses, now, ticks, held,
                           spent, inflight, sessions>>

(***************************************************************************)
(* Requests of the category and expense runs.                              *)
(***************************************************************************)
Ann == [email |-> "a@x.io", username |-> "ann", password |-> "pw-one-1"]

Bob == [email |-> "b@x.io", username |-> "bob", password |-> "pw-two-2"]

Unset == [x \in {} |-> None]

\* a JSON body with the single field f
Field(f, v) == [x \in {f} |-> v]

\* the JSON body carrying the fields of both a and b
Merge(a, b) == [x \in DOMAIN a \cup DOMAIN b |-> IF x \in DOMAIN a THEN a[x] ELSE b[x]]

NextCat ==
    \/ register(Ann, "s1")
    \/ \E n \in CategoryNames, u \in current_users :
          create_category([name |-> n], u)
    \/ \E c \in categories : DeactivateCategory(c.id)
    \/ \E b \in BOOLEAN, u \in current_users : get_categories(b, u)

SpecCat == Init /\ [][NextCat]_vars

\* the clients of the expense runs sign up in a fixed order, and the
\* categories are created in a fixed order
Registrants == IF users = {} THEN {Ann} ELSE {Ann, Bob}

NewCategoryNames == IF categories = {} THEN {"Food"} ELSE {"Food", "Rent"}

ExpenseIds == 1..(MaxExpenseId + 1)

Query(category_id, start_date, end_date, min_amount, max_amount, skip, limit) ==
    [category_id |-> category_id, start_date |-> start_date, end_date |-> end_date,
     min_amount |-> min_amount, max_amount |-> max_amount, skip |-> skip,
     limit |-> limit]

(***************************************************************************)
(* Creation and retrieval: users, categories that come and go out of use,  *)
(* expenses created, read and deleted.                                     *)
(***************************************************************************)
CreateInputsExp ==
    {[amount |-> 10, category_id |-> c, description |-> "lunch", date |-> 1,
      notes |-> None] : c \in {1, 2, 3}}
        \cup {[amount |-> 50, category_id |-> 2, description |-> "taxi", date |-> 2,
               notes |-> Some("memo")]}

NextExp ==
    \/ \E d \in Registrants : register(d, "s1")
    \/ \E n \in NewCategoryNames, u \in current_users : create_category([name |-> n], u)
    \/ \E c \in categories : DeactivateCategory(c.id)
    \/ \E d \in CreateInputsExp, u \in current_users :
          NextId(expenses) <= MaxExpenseId /\ create_expense(d, u)
    \/ \E id \in ExpenseIds, u \in current_users : get_expense(id, u)
    \/ \E id \in ExpenseIds, u \in current_users : delete_expense(id, u)

SpecExp == Init /\ [][NextExp]_vars

(***************************************************************************)
(* Updates: one client, two categories, every field of a row rewritten.    *)
(***************************************************************************)
CreateInputsUpdate ==
    {[amount |-> 10, category_id |-> 1, description |-> "lunch", date |-> 1,
      notes |-> None],
     [amount |-> 50, category_id |-> 2, description |-> "taxi", date |-> 2,
      notes |-> Some("memo")]}

UpdateBodies ==
    {Unset,
     Field("amount", Some(10)),
     Field("amount", Some(50)),
     Field("amount", None),
     Field("category_id", Some(1)),
     Field("category_id", Some(2)),
     Field("category_id", Some(3)),
     Field("category_id", None),
     Field("description", Some("lunch")),
     Field("description", Some("taxi")),
     Field("date", Some(1)),
     Field("date", Some(2)),
     Field("notes", Some("memo")),
     Field("notes", None),
     Merge(Field("amount", Some(10)), Field("notes", None)),
     Merge(Field("description", Some("lunch")), Field("date", Some(2))),
     Merge(Merge(Field("amount", Some(10)), Field("category_id", Some(1))),
           Merge(Field("description", Some("lunch")), Field("date", Some(1))))}

UpdateExpenseIds == 1..(MaxUpdateExpenseId + 1)

NextUpdate ==
    \/ register(Ann, "s1")
    \/ \E n \in NewCategoryNames, u \in current_users : create_category([name |-> n], u)
    \/ \E d \in CreateInputsUpdate, u \in current_users :
          NextId(expenses) <= MaxUpdateExpenseId /\ create_expense(d, u)
    \/ \E id \in UpdateExpenseIds, b \in UpdateBodies, u \in current_users :
          update_expense(id, ExpenseUpdate(b), u)
    \/ \E id \in UpdateExpenseIds, u \in current_users : delete_expense(id, u)

SpecUpdate == Init /\ [][NextUpdate]_vars

\* updates of expenses whose categories go out of use
NextRevalidate ==
    \/ NextUpdate
    \/ \E c \in categories : DeactivateCategory(c.id)

SpecRevalidate == Init /\ [][NextRevalidate]_vars

(***************************************************************************)
(* Two clients against each other's expenses.                              *)
(***************************************************************************)
CreateInputsIso ==
    {[amount |-> 10, category_id |-> 1, description |-> "lunch", date |-> 1,
      notes |-> None]}

QueriesIso ==
    {Query(c, sd, ed, mn, mx, 0, 500) :
        c \in {None, Some(0), Some(1)}, sd \in {None, Some(1)}, ed \in {None},
        mn \in {None, Some(0)}, mx \in {None, Some(50)}}

NextIso ==
    \/ \E d \in Registrants : register(d, "s1")
    \/ \E u \in current_users : create_category([name |-> "Food"], u)
    \/ \E d \in CreateInputsIso, u \in current_users :
          NextId(expenses) <= MaxExpenseId /\ create_expense(d, u)
    \/ \E id \in ExpenseIds, u \in current_users : get_expense(id, u)
    \/ \E id \in ExpenseIds, u \in current_users :
          update_expense(id, ExpenseUpdate(Field("amount", Some(50))), u)
    \/ \E id \in ExpenseIds, u \in current_users : delete_expense(id, u)
    \/ \E q \in QueriesIso, u \in current_users : get_user_expenses(q, u)

SpecIso == Init /\ [][NextIso]_vars

(***************************************************************************)
(* Filters: two clients, two categories, every combination of filters.     *)
(***************************************************************************)
CreateInputsList ==
    [amount : {10, 50}, category_id : {1, 2}, description : {"lunch"}, date : {1, 2},
     notes : {None}]

QueriesList ==
    {Query(c, sd, ed, mn, mx, 0, 500) :
        c \in {None, Some(1)}, sd \in {None, Some(2)}, ed \in {None, Some(1)},
        mn \in {None, Some(20)}, mx \in {None, Some(20)}}
      \cup {Query(c, None, None, mn, None, 0, 500) :
              c \in {Some(0), Some(9)}, mn \in {None, Some(20)}}

NextList ==
    \/ \E d \in Registrants : register(d, "s1")
    \/ \E n \in NewCategoryNames, u \in current_users : create_category([name |-> n], u)
    \/ \E d \in CreateInputsList, u \in current_users :
          NextId(expenses) <= MaxExpenseId /\ create_expense(d, u)
    \/ \E id \in ExpenseIds, u \in current_users : delete_expense(id, u)
    \/ \E q \in QueriesList, u \in current_users : get_user_expenses(q, u)

SpecList == Init /\ [][NextList]_vars

(***************************************************************************)
(* Pagination: one client, expenses on three dates, paged requests.        *)
(***************************************************************************)
CreateInputsPage ==
    [amount : {10}, category_id : {1}, description : {"lunch"}, date : {1, 2, 3},
     notes : {None}]

QueriesPage ==
    {Query(None, sd, None, None, None, sk, lm) :
        sd \in {None, Some(2)}, sk \in 0..MaxPageExpenseId, lm \in {1, 2, 500}}

NextPage ==
    \/ register(Ann, "s1")
    \/ \E u \in current_users : create_category([name |-> "Food"], u)
    \/ \E d \in CreateInputsPage, u \in current_users :
          NextId(expenses) <= MaxPageExpenseId /\ create_expense(d, u)
    \/ \E id \in 1..MaxPageExpenseId, u \in current_users : delete_expense(id, u)
    \/ \E q \in QueriesPage, u \in current_users : get_user_expenses(q, u)

SpecPage == Init /\ [][NextPage]_vars

(***************************************************************************)
(* Token reuse: clients that keep every refresh token they were issued and *)
(* present them again after rotation, with the history of the accepted     *)
(* ones recorded beside the refresh step.                                  *)
(***************************************************************************)
\* the history after a refresh request: one more copy of an accepted token
Accepted(token_request) ==
    IF refresh_response(token_request).status = 200
    THEN spent (+) SetToBag({token_request.refresh_token})
    ELSE spent

\* the runs stop presenting tokens after MaxRefreshes accepted refreshes
RefreshAllowed == BagCardinality(spent) < MaxRefreshes

RotateLogins == {[email |-> d.email, password |-> d.password] : d \in {Ann, Bob}}

RotateTokens ==
    HeldTokens \cup BagToSet(spent)
        \cup {Sign([sub |-> "1", email |-> "a@x.io", token_type |-> "refresh",
                    exp |-> FarFuture], "another-key")}

NextRotate ==
    \/ \E d \in Registrants : register(d, "s1")
    \/ \E c \in RotateLogins : login(c)
    \/ \E t \in RotateTokens :
          /\ RefreshAllowed
          /\ refresh_token([refresh_token |-> t])
          /\ spent' = Accepted([refresh_token |-> t])
    \/ \E d \in TickSteps : Tick(d)
    \/ \E u \in users : DeactivateUser(u.id)

SpecRotate == Init /\ [][NextRotate]_vars

(***************************************************************************)
(* Failures: every handler that writes, each with requests that it refuses *)
(* at every one of its checks and requests that it serves.                 *)
(***************************************************************************)
RegisterInputsFail ==
    Registrants \cup {[email |-> "b@x.io", username |-> "ann", password |-> "pw-two-2"]}

LoginInputsFail ==
    {[email |-> "a@x.io", password |-> "pw-one-1"],
     [email |-> "a@x.io", password |-> "pw-two-2"],
     [email |-> UnknownEmail, password |-> "pw-one-1"]}

TokensFail ==
    HeldTokens
        \cup {Sign([sub |-> "1", email |-> "a@x.io", token_type |-> "refresh",
                    exp |-> FarFuture], "another-key"),
              Sign([sub |-> "9", email |-> "a@x.io", token_type |-> "refresh",
                    exp |-> FarFuture], SECRET_KEY)}

CreateInputsFail ==
    {[amount |-> 10, category_id |-> c, description |-> "lunch", date |-> 1,
      notes |-> Some("memo")] : c \in {1, 2}}

UpdateBodiesFail ==
    {Field("amount", Some(50)),
     Field("amount", None),
     Field("category_id", Some(1)),
     Field("category_id", Some(2)),
     Merge(Field("amount", Some(50)), Field("date", None)),
     Merge(Field("notes", None), Field("description", None))}

NextFail ==
    \/ \E d \in RegisterInputsFail : register(d, "s1")
    \/ \E c \in LoginInputsFail : login(c)
    \/ \E t \in TokensFail : refresh_token([refresh_token |-> t]) /\ UNCHANGED spent
    \/ \E u \in users : DeactivateUser(u.id)
    \/ \E u \in current_users : create_category([name |-> "Food"], u)
    \/ \E c \in categories : DeactivateCategory(c.id)
    \/ \E d \in CreateInputsFail, u \in current_users :
          NextId(expenses) <= MaxUpdateExpenseId /\ create_expense(d, u)
    \/ \E id \in UpdateExpenseIds, b \in UpdateBodiesFail, u \in current_users :
          update_expense(id, ExpenseUpdate(b), u)
    \/ \E id \in UpdateExpenseIds, u \in current_users : delete_expense(id, u)

SpecFail == Init /\ [][NextFail]_vars

(***************************************************************************)
(* Concurrent workers: app/database.py get_db around POST /auth/register,  *)
(* one store call per step.  A worker's request is at "opened" once get_db *)
(* has made its session, passes the two queries of the handler, and leaves *)
(* the handler at "returned" (the user was committed), "raised" (an        *)
(* HTTPException) or "crashed" (the commit raised IntegrityError); the     *)
(* finally clause of get_db then closes the session.                       *)
(***************************************************************************)
Exited == {"returned", "raised", "crashed"}

\* the worker's request with the handler's outcome
Exit(w, pc, r) == [inflight EXCEPT ![w] = [pc |-> pc, user_data |-> @.user_data,
                                           response |-> r]]

\* db = SessionLocal(); yield db
get_db_enter(w, user_data) ==
    /\ inflight[w].pc = "idle"
    /\ sessions' = sessions (+) SetToBag({w})
    /\ inflight' = [inflight EXCEPT ![w] = [pc |-> "opened", user_data |-> user_data]]
    /\ UNCHANGED <<users, categories, expenses, now, ticks, held, resp, spent>>

\* existing_email = db.query(User).filter(User.email == ...).first()
register_existing_email(w) ==
    /\ inflight[w].pc = "opened"
    /\ LET user_data == inflight[w].user_data
           r == HTTPException(400, "Email already registered", NoHeaders)
       IN  IF existing_email(user_data) # None
           THEN /\ inflight' = Exit(w, "raised", r)
                /\ resp' = Reply("register", 0, user_data, r)
           ELSE /\ inflight' = [inflight EXCEPT ![w].pc = "email_checked"]
                /\ resp' = resp
    /\ UNCHANGED <<users, categories, expenses, now, ticks, held, spent, sessions>>

\* existing_username = db.query(User).filter(User.username == ...).first()
register_existing_username(w) ==
    /\ inflight[w].pc = "email_checked"
    /\ LET user_data == inflight[w].user_data
           r == HTTPException(400, "Username already taken", NoHeaders)
       IN  IF existing_username(user_data) # None
           THEN /\ inflight' = Exit(w, "raised", r)
                /\ resp' = Reply("register", 0, user_data, r)
           ELSE /\ inflight' = [inflight EXCEPT ![w].pc = "username_checked"]
                /\ resp' = resp
    /\ UNCHANGED <<users, categories, expenses, now, ticks, held, spent, sessions>>

\* db.add(new_user); db.commit(); db.refresh(new_user); return new_user
\* the INSERT meets the unique constraints of the users table: a violation
\* raises IntegrityError, which the handler does not catch
register_commit(w) ==
    /\ inflight[w].pc = "username_checked"
    /\ LET user_data == inflight[w].user_data
           row == new_user(user_data, "s1")
       IN  IF UserInsertAllowed(row)
           THEN /\ users' = users \cup {row}
                /\ inflight' = Exit(w, "returned", Ok(201, UserResponse(row)))
                /\ resp' = Reply("register", 0, user_data, Ok(201, UserResponse(row)))
           ELSE /\ users' = users
                /\ inflight' = Exit(w, "crashed",
                                    HTTPException(500, "Internal Server Error",
                                                  NoHeaders))
                /\ resp' = Reply("register", 0, user_data,
                                 HTTPException(500, "Internal Server Error", NoHeaders))
    /\ UNCHANGED <<categories, expenses, now, ticks, held, spent, sessions>>

get_db_finally_on_return(w) ==
    /\ inflight[w].pc \in Exited
    /\ sessions' = IF inflight[w].pc = "crashed" THEN sessions
                   ELSE sessions (-) SetToBag({w})
    /\ inflight' = [inflight EXCEPT ![w] = Idle]
    /\ UNCHANGED <<users, categories, expenses, now, ticks, held, resp, spent>>

\* finally: db.close()
get_db_finally(w) ==
    /\ inflight[w].pc \in Exited
    /\ sessions' = sessions (-) SetToBag({w})
    /\ inflight' = [inflight EXCEPT ![w] = Idle]
    /\ UNCHANGED <<users, categories, expenses, now, ticks, held, resp, spent>>

\* the steps of the worker on the request it has
Serve(w) ==
    \/ register_existing_email(w)
    \/ register_existing_username(w)
    \/ register_commit(w)
    \/ get_db_finally(w)

RegisterInputsConc ==
    {Ann,
     [email |-> "a@x.io", username |-> "bob", password |-> "pw-two-2"],
     [email |-> "b@x.io", username |-> "ann", password |-> "pw-one-1"]}

NextConc ==
    \/ \E w \in Workers, d \in RegisterInputsConc : get_db_enter(w, d)
    \/ \E w \in Workers : register_existing_email(w)
    \/ \E w \in Workers : register_existing_username(w)
    \/ \E w \in Workers : register_commit(w)
    \/ \E w \in Workers : get_db_finally(w)

SpecConc == Init /\ [][NextConc]_vars

\* a worker that has a request keeps running it: nothing in the handler or
\* in get_db waits on another request
SpecConcLive == SpecConc /\ \A w \in Workers : WF_vars(Serve(w))

(***************************************************************************)
(* Request validation (app/schemas/expense.py) in front of the expense     *)
(* handlers: a body that the schema refuses is answered 422 and never      *)
(* reaches the handler.                                                    *)
(***************************************************************************)
\* ExpenseCreate: amount gt=0 and category_id gt=0
ExpenseCreate_valid(json) == json.amount > 0 /\ json.category_id > 0

ExpenseUpdate_valid_unbounded(json) == TRUE

\* ExpenseUpdate: every field Optional; a supplied amount or category_id that
\* is not null is gt=0
ExpenseUpdate_valid(json) ==
    /\ ("amount" \in DOMAIN json /\ json.amount # None) => json.amount[1] > 0
    /\ ("category_id" \in DOMAIN json /\ json.category_id # None) =>
           json.category_id[1] > 0

\* RequestValidationError: 422 Unprocessable Entity
unprocessable(op, req, current_user) ==
    /\ resp' = Reply(op, current_user.id, req,
                     HTTPException(422, "Unprocessable Entity", NoHeaders))
    /\ UNCHANGED <<users, categories, expenses, now, ticks, held, spent, inflight,
                   sessions>>

\* POST /expenses with a JSON body
post_expense(json, current_user) ==
    IF ExpenseCreate_valid(json)
    THEN create_expense(json, current_user)
    ELSE unprocessable("create_expense", json, current_user)

\* PUT /expenses/{expense_id} with a JSON body
put_expense(expense_id, json, current_user) ==
    IF ExpenseUpdate_valid(json)
    THEN update_expense(expense_id, ExpenseUpdate(json), current_user)
    ELSE unprocessable("update_expense", [expense_id |-> expense_id, json |-> json],
                       current_user)

CreateInputsInv ==
    [amount : {10, 0, -5}, category_id : {0, 1, 2}, description : {"lunch"},
     date : {1}, notes : {None}]

UpdateBodiesInv ==
    {Field("amount", a) : a \in {Some(50), Some(0), Some(-5), None}}
        \cup {Field("category_id", c) : c \in {Some(1), Some(2), Some(0), None}}
        \cup {Merge(Field("amount", Some(50)), Field("category_id", None)),
              Merge(Field("amount", None), Field("category_id", Some(1)))}

NextInv ==
    \/ \E d \in Registrants : register(d, "s1")
    \/ \E u \in current_users : create_category([name |-> "Food"], u)
    \/ \E c \in categories : DeactivateCategory(c.id)
    \/ \E d \in CreateInputsInv, u \in current_users :
          NextId(expenses) <= MaxExpenseId /\ post_expense(d, u)
    \/ \E id \in ExpenseIds, b \in UpdateBodiesInv, u \in current_users :
          put_expense(id, b, u)
    \/ \E id \in ExpenseIds, u \in current_users : delete_expense(id, u)

SpecInv == Init /\ [][NextInv]_vars

(***************************************************************************)
(* Ownership: two clients, update bodies that name id and user_id, deletes *)
(* followed by reads and by new expenses.                                  *)
(***************************************************************************)
UpdateBodiesOwn ==
    {Unset,
     Field("amount", Some(50)),
     Field("user_id", Some(1)),
     Field("user_id", Some(2)),
     Field("user_id", None),
     Field("id", Some(2)),
     Merge(Field("amount", Some(50)), Field("user_id", Some(2)))}

NextOwn ==
    \/ \E d \in Registrants : register(d, "s1")
    \/ \E u \in current_users : create_category([name |-> "Food"], u)
    \/ \E d \in CreateInputsIso, u \in current_users :
          NextId(expenses) <= MaxExpenseId /\ create_expense(d, u)
    \/ \E id \in ExpenseIds, b \in UpdateBodiesOwn, u \in current_users :
          put_expense(id, b, u)
    \/ \E id \in ExpenseIds, u \in current_users : delete_expense(id, u)
    \/ \E id \in ExpenseIds, u \in current_users : get_expense(id, u)

SpecOwn == Init /\ [][NextOwn]_vars

(***************************************************************************)
(* Properties of the authentication handlers (checked under SpecAuth).     *)
(***************************************************************************)
Duplicate(user_data) ==
    \E u \in users : u.email = user_data.email \/ u.username = user_data.username

\* C3: a register request whose email or username is already taken answers 400
\* and leaves the users as they were, whatever its password; a register request
\* whose email and username are both unused answers 201 and adds exactly one
\* user, with that email and username, is_active = TRUE and is_verified = FALSE.
C3_RegisterRejectsDuplicates ==
    [][resp'.op = "register" =>
         IF Duplicate(resp'.req)
         THEN resp'.status = 400 /\ users' = users
         ELSE /\ resp'.status = 201
              /\ \E nu \in users' \ users :
                    /\ users' = users \cup {nu}
                    /\ nu.email = resp'.req.email
                    /\ nu.username = resp'.req.username
                    /\ nu.is_active
                    /\ ~nu.is_verified
                    /\ resp'.body = Some(UserResponse(nu))]_vars

\* a duplicate username under a fresh email and a password the holder of the
\* username does not have was refused
C3_Witness ==
    /\ resp.op = "register"
    /\ resp.status = 400
    /\ \A u \in users : u.email # resp.req.email
    /\ \E u \in users : /\ u.username = resp.req.username
                        /\ ~verify_password(resp.req.password, u.hashed_password)

UnknownUser(c) == \A u \in users : u.email # c.email

WrongPassword(c) ==
    \E u \in users : u.email = c.email /\ ~verify_password(c.password, u.hashed_password)

\* C4: a login with an email no user has and a login with a user's email and a
\* wrong password get the same response (401, the same detail, the same
\* headers, no body), whether that user is active or not.
C4_LoginEnumerationResistance ==
    /\ \A c1, c2 \in LoginInputs :
          UnknownUser(c1) /\ WrongPassword(c2) =>
              /\ login_response(c1) = login_response(c2)
              /\ login_response(c1).status = 401
    /\ (resp.op = "login" /\ (UnknownUser(resp.req) \/ WrongPassword(resp.req))) =>
          /\ resp.status = 401
          /\ resp.detail = "Incorrect email or password"
          /\ resp.headers = BearerHeaders
          /\ resp.body = None

\* an inactive user's email with a wrong password was answered 401
C4_Witness ==
    /\ resp.op = "login"
    /\ resp.status = 401
    /\ \E u \in users : /\ u.email = resp.req.email
                        /\ ~u.is_active
                        /\ ~verify_password(resp.req.password, u.hashed_password)

\* C5: a refresh request whose token does not carry token_type = "refresh"
\* answers 401 with no body and issues nothing, also when the token is signed
\* by the server, unexpired and names an existing active user.
C5_RefreshRejectsAccessTokens ==
    [][(resp'.op = "refresh"
        /\ Get(resp'.req.refresh_token.claims, "token_type") # Some("refresh")) =>
           /\ resp'.status = 401
           /\ resp'.body = None
           /\ held' = held]_vars

\* the access token the last login or refresh issued, still valid and naming
\* an active user, was presented to refresh and refused
C5_Witness ==
    /\ resp.op = "refresh"
    /\ resp.status = 401
    /\ held # None
    /\ resp.req.refresh_token = held[1].access_token
    /\ decode_token(resp.req.refresh_token) # None
    /\ \E u \in users : str(u.id) = resp.req.refresh_token.claims.sub /\ u.is_active

(***************************************************************************)
(* Properties of the category and expense handlers.                        *)
(***************************************************************************)
Others(caller) == {e \in expenses : e.user_id # caller}

\* C1 (SpecIso): a get, update or delete addressed to the id of an expense that
\* another user owns answers 404 and leaves the expenses as they were, and a
\* list, whatever its filters, returns only rows of the caller and no row with
\* the id of another user's expense.
C1_OwnerIsolation ==
    [][/\ (resp'.op \in {"get_expense", "update_expense", "delete_expense"}
           /\ \E e \in Others(resp'.caller) : e.id = resp'.req.expense_id) =>
              /\ resp'.status = 404
              /\ resp'.body = None
              /\ expenses' = expenses
       /\ resp'.op = "get_user_expenses" =>
              /\ expenses' = expenses
              /\ \A i \in DOMAIN resp'.body[1] :
                    /\ resp'.body[1][i].user_id = resp'.caller
                    /\ \A e \in Others(resp'.caller) : e.id # resp'.body[1][i].id]_vars

\* an update addressed to another user's expense was answered 404
C1_Witness ==
    /\ resp.op = "update_expense"
    /\ resp.status = 404
    /\ \E e \in expenses : e.id = resp.req.expense_id /\ e.user_id # resp.caller

\* the expenses a list request asks for: the caller's, under every filter the
\* request supplies
Requested(q, caller) ==
    {e \in expenses :
        /\ e.user_id = caller
        /\ (q.category_id # None => e.category_id = q.category_id[1])
        /\ (q.start_date # None => e.date >= q.start_date[1])
        /\ (q.end_date # None => e.date <= q.end_date[1])
        /\ (q.min_amount # None => e.amount >= q.min_amount[1])
        /\ (q.max_amount # None => e.amount <= q.max_amount[1])}

Row(b) ==
    [id |-> b.id, amount |-> b.amount, category_id |-> b.category_id,
     description |-> b.description, date |-> b.date, notes |-> b.notes,
     user_id |-> b.user_id]

BodyRows(r) == {Row(r.body[1][i]) : i \in DOMAIN r.body[1]}

\* C2 (SpecList): an unpaged list returns exactly the caller's expenses that
\* pass every supplied filter (category_id of any integer value, start_date,
\* end_date, min_amount, max_amount); an omitted filter constrains nothing.
C2_FiltersConjunctive ==
    (resp.op = "get_user_expenses" /\ resp.req.skip = 0
        /\ resp.req.limit >= Cardinality(expenses)) =>
            BodyRows(resp) = Requested(resp.req, resp.caller)

Col(row, f) == IF f = "notes" THEN row.notes ELSE Some(row[f])

\* C6 (SpecUpdate): a successful update leaves the row with, in every field
\* the body carries, the body's value, and in every field the body does not
\* carry (among amount, category_id, description, date, notes), the value the
\* row had before.
C6_SparseUpdate ==
    [][(resp'.op = "update_expense" /\ resp'.status = 200) =>
          \E old \in expenses, new \in expenses' :
              /\ old.id = resp'.req.expense_id
              /\ new.id = old.id
              /\ resp'.body = Some(new)
              /\ \A f \in UpdateFields :
                    IF f \in resp'.req.body.fields_set
                    THEN Col(new, f) = resp'.req.body[f]
                    ELSE new[f] = old[f]]_vars

\* an update carrying only amount succeeded on a row created with amount 50,
\* description "taxi", date 2 and a note: the other fields are as created
C6_Witness ==
    /\ resp.op = "update_expense"
    /\ resp.status = 200
    /\ resp.req.body.fields_set = {"amount"}
    /\ resp.body[1].amount = 10
    /\ resp.body[1].description = "taxi"
    /\ resp.body[1].date = 2
    /\ resp.body[1].category_id = 2
    /\ resp.body[1].notes = Some("memo")

\* C7 (SpecPage): a list returns the records ranked skip+1 .. skip+limit of a
\* date-descending ordering of the caller's filtered expenses (fewer when the
\* ordering is shorter), and in the response every record's date is >= the
\* date of every later record.
C7_Pagination ==
    resp.op = "get_user_expenses" =>
        LET q == resp.req
            body == resp.body[1]
            matched == filtered_query(q, [id |-> resp.caller])
            n == Cardinality(matched)
            expected == IF n <= q.skip THEN 0
                        ELSE IF n - q.skip <= q.limit THEN n - q.skip ELSE q.limit
        IN  /\ Len(body) = expected
            /\ \A i, j \in DOMAIN body : i < j => body[i].date >= body[j].date
            /\ \E ord \in Listings(matched) :
                  /\ \A i, j \in DOMAIN ord : i < j => ord[i].date >= ord[j].date
                  /\ \A i \in DOMAIN body : Row(body[i]) = ord[q.skip + i]

\* three expenses on three dates, skip 1 and limit 1: the response is the one
\* record of the middle date
C7_Witness ==
    /\ resp.op = "get_user_expenses"
    /\ resp.req.skip = 1
    /\ resp.req.limit = 1
    /\ resp.req.start_date = None
    /\ {e.date : e \in expenses} = {1, 2, 3}
    /\ Len(resp.body[1]) = 1
    /\ resp.body[1][1].date = 2

\* C8 (SpecExp): a create naming a category id that no category has answers
\* 404, a create naming an inactive category answers 400, and neither adds an
\* expense; any other create answers 201 and adds exactly one expense, owned
\* by the caller and referencing that category.
C8_CreateValidatesCategory ==
    [][resp'.op = "create_expense" =>
         LET named == {c \in categories : c.id = resp'.req.category_id}
         IN  IF named = {}
             THEN resp'.status = 404 /\ expenses' = expenses
             ELSE IF \E c \in named : ~c.is_active
             THEN resp'.status = 400 /\ expenses' = expenses
             ELSE /\ resp'.status = 201
                  /\ \E ne \in expenses' \ expenses :
                        /\ expenses' = expenses \cup {ne}
                        /\ \A e \in expenses : e.id # ne.id
                        /\ ne.user_id = resp'.caller
                        /\ ne.category_id = resp'.req.category_id]_vars

\* a create naming an inactive category was answered 400
C8_Witness ==
    /\ resp.op = "create_expense"
    /\ resp.status = 400
    /\ \E c \in categories : c.id = resp.req.category_id /\ ~c.is_active

\* C9 (SpecCat): a category list with include_inactive = FALSE holds exactly
\* the active categories, with include_inactive = TRUE every category, each
\* once, in ascending order of name.
C9_CategoryListing ==
    resp.op = "get_categories" =>
        LET body == resp.body[1]
            expected == IF resp.req.include_inactive THEN categories
                        ELSE {c \in categories : c.is_active}
        IN  /\ {body[i] : i \in DOMAIN body} = {CategoryResponse(c) : c \in expected}
            /\ Len(body) = Cardinality(expected)
            /\ \A i, j \in DOMAIN body :
                  i < j => NameRank(body[i].name) < NameRank(body[j].name)

\* a default list left out an inactive category and returned two active ones
C9_Witness ==
    /\ resp.op = "get_categories"
    /\ ~resp.req.include_inactive
    /\ \E c \in categories : ~c.is_active
    /\ Len(resp.body[1]) = 2

Supplied(b, d) ==
    /\ b.amount = d.amount
    /\ b.category_id = d.category_id
    /\ b.description = d.description
    /\ b.date = d.date
    /\ b.notes = d.notes

\* C10 (SpecExp): a successful create stores a row with the supplied amount,
\* category_id, description, date and notes under the caller's user_id and
\* returns its id; no step other than an update or a delete of an expense
\* changes or removes its row; and a get by the owner returns the stored row's
\* fields.  In particular a get by the creator that directly follows the
\* create returns the supplied values and the creator's user_id.
C10_CreateGetRoundTrip ==
    [][/\ (resp'.op = "create_expense" /\ resp'.status = 201) =>
             \E ne \in expenses' \ expenses :
                 /\ Supplied(ne, resp'.req)
                 /\ ne.user_id = resp'.caller
                 /\ resp'.body = Some(ne)
       /\ \A e \in expenses :
             ~(resp'.op \in {"update_expense", "delete_expense"}
               /\ resp'.req.expense_id = e.id) => e \in expenses'
       /\ (resp'.op = "get_expense"
           /\ \E e \in expenses :
                 e.id = resp'.req.expense_id /\ e.user_id = resp'.caller) =>
             /\ resp'.status = 200
             /\ Row(resp'.body[1]) \in expenses
             /\ resp'.body[1].id = resp'.req.expense_id
             /\ expenses' = expenses
       /\ (resp.op = "create_expense" /\ resp.status = 201
           /\ resp'.op = "get_expense" /\ resp'.caller = resp.caller
           /\ resp'.req.expense_id = resp.body[1].id) =>
             /\ resp'.status = 200
             /\ Supplied(resp'.body[1], resp.req)
             /\ resp'.body[1].user_id = resp.caller]_vars

\* the second user read back an expense carrying the note it was created with
C10_Witness ==
    /\ resp.op = "get_expense"
    /\ resp.status = 200
    /\ resp.caller = 2
    /\ resp.body[1].user_id = 2
    /\ resp.body[1].amount = 50
    /\ resp.body[1].notes = Some("memo")

(***************************************************************************)
(* Token reuse (checked under SpecRotate).                                 *)
(***************************************************************************)
\* what the server can see of a refresh token at the time of the request: it
\* is signed with the server's key, unexpired, of type "refresh", and its
\* subject is the id of an active user
Acceptable(t) ==
    /\ t.key = SECRET_KEY
    /\ now <= t.claims.exp
    /\ Get(t.claims, "token_type") = Some("refresh")
    /\ \E u \in users : u.is_active /\ Get(t.claims, "sub") = Some(str(u.id))

\* C11: a refresh request is accepted exactly when its token is signed by the
\* server, unexpired, of type "refresh" and names an existing active user,
\* however often that token or any other was accepted before; in particular a
\* token that an earlier refresh accepted is accepted again as long as it is
\* unexpired and its subject is an active user.
C11_NoRevocationOnRotation ==
    [][resp'.op = "refresh" =>
         LET t == resp'.req.refresh_token
         IN  /\ (resp'.status = 200) <=> Acceptable(t)
             /\ (BagIn(t, spent) /\ now <= t.claims.exp
                  /\ \E u \in users : u.is_active /\ t.claims.sub = str(u.id)) =>
                     resp'.status = 200]_vars

\* a refresh token was accepted a second time after the first acceptance had
\* issued another refresh token in its place
C11_Witness ==
    /\ resp.op = "refresh"
    /\ resp.status = 200
    /\ CopiesIn(resp.req.refresh_token, spent) >= 2
    /\ resp.body[1].refresh_token # resp.req.refresh_token

(***************************************************************************)
(* Failures (checked under SpecFail).                                      *)
(***************************************************************************)
WritingOps ==
    {"register", "login", "refresh", "create_category", "create_expense",
     "update_expense", "delete_expense"}

\* C12: whenever register, login, refresh, category create, expense create,
\* update or delete answers with an error status (400 and above), the users,
\* the categories and the expenses are the ones that were stored before the
\* request.
C12_FailuresLeaveNoPartialWrites ==
    [][(resp'.op \in WritingOps /\ resp'.status >= 400) => store' = store]_vars

\* an update that set amount and gave null for the date failed at the commit,
\* and the stored row still has the amount it was created with
C12_Witness ==
    /\ resp.op = "update_expense"
    /\ resp.status = 500
    /\ resp.req.body.fields_set = {"amount", "date"}
    /\ resp.req.body.amount = Some(50)
    /\ \E e \in expenses : e.id = resp.req.expense_id /\ e.amount = 10

(***************************************************************************)
(* Sessions (checked under SpecConcLive).                                  *)
(***************************************************************************)
InFlight(w) == inflight[w].pc # "idle"

\* C13: a worker has exactly one open session while it has a request and none
\* while it has none, so that no session is open when no request is in
\* flight; and the session of every request is eventually closed, whether the
\* handler returned, raised an HTTPException or failed with an unexpected
\* exception.
C13_ScopedSessionDiscipline ==
    /\ [](\A w \in Workers : CopiesIn(w, sessions) = IF InFlight(w) THEN 1 ELSE 0)
    /\ []((\A w \in Workers : ~InFlight(w)) => BagCardinality(sessions) = 0)
    /\ \A w \in Workers :
          InFlight(w) ~> (~InFlight(w) /\ CopiesIn(w, sessions) = 0)

\* the last request to leave its handler left it on an unexpected exception,
\* every request is over and no session is open
C13_Witness ==
    /\ resp.op = "register"
    /\ resp.status = 500
    /\ \A w \in Workers : ~InFlight(w)
    /\ BagCardinality(sessions) = 0

(***************************************************************************)
(* Concurrent registration (checked under SpecConc).                       *)
(***************************************************************************)
\* C19: under every interleaving of concurrent register requests, no two
\* stored users share an email or a username, and every request that leaves
\* the handler without having created its user is answered 400.
C19_UniquenessUnderConcurrency ==
    /\ \A u, v \in users : u # v => u.email # v.email /\ u.username # v.username
    /\ \A w \in Workers :
          inflight[w].pc \in Exited => inflight[w].response.status \in {201, 400}

(***************************************************************************)
(* Expense invariants (checked under SpecInv).                             *)
(***************************************************************************)
\* C14: every stored expense has amount > 0, a user_id that is the id of a
\* stored user and a category_id that is the id of a stored category, after
\* any sequence of create and update requests, bodies that give a field as
\* null included.
C14_ExpenseInvariants ==
    \A e \in expenses :
        /\ e.amount > 0
        /\ \E u \in users : u.id = e.user_id
        /\ \E c \in categories : c.id = e.category_id

\* an update that passed validation with category_id given as null was
\* answered 500 and the addressed expense still names a stored category
C14_Witness ==
    /\ resp.op = "update_expense"
    /\ resp.status = 500
    /\ "category_id" \in resp.req.body.fields_set
    /\ resp.req.body.category_id = None
    /\ \E e \in expenses :
          /\ e.id = resp.req.expense_id
          /\ \E c \in categories : c.id = e.category_id

(***************************************************************************)
(* Category names (checked under SpecCat).                                 *)
(***************************************************************************)
\* C15: a category create whose name is exactly the name of a stored category,
\* active or not, answers 400 and adds nothing; any other create answers 201
\* and adds one category with that name and is_active = TRUE (a name that
\* differs from a stored one only in letter case is another name); and no two
\* stored categories ever share a name.
C15_CategoryNameUniqueness ==
    /\ [][resp'.op = "create_category" =>
             IF \E c \in categories : c.name = resp'.req.name
             THEN resp'.status = 400 /\ categories' = categories
             ELSE /\ resp'.status = 201
                  /\ \E nc \in categories' \ categories :
                        /\ categories' = categories \cup {nc}
                        /\ nc.name = resp'.req.name
                        /\ nc.is_active]_vars
    /\ [](\A c, d \in categories : c # d => c.name # d.name)

\* a create with the name of an inactive category was answered 400, while
\* "Food" and "food" are both stored
C15_Witness ==
    /\ resp.op = "create_category"
    /\ resp.status = 400
    /\ \E c \in categories : c.name = resp.req.name /\ ~c.is_active
    /\ {"Food", "food"} \subseteq {c.name : c \in categories}

(***************************************************************************)
(* Login outcomes (checked under SpecAuth).                                *)
(***************************************************************************)
\* C16: a login answers 401 when no user has the email or the password does
\* not verify (an inactive user with a wrong password included), 403 when the
\* email is a user's, the password verifies and the user is inactive, and
\* otherwise 200 with an access token and a refresh token whose subject is
\* the user's id, token_type "bearer" and expires_in the access lifetime in
\* seconds; and a login never changes the stored users, categories or
\* expenses.
C16_LoginOutcomeOrder ==
    [][resp'.op = "login" =>
         LET c == resp'.req
             named == {u \in users : u.email = c.email}
         IN  /\ store' = store
             /\ IF named = {}
                   \/ \E u \in named : ~verify_password(c.password, u.hashed_password)
                THEN resp'.status = 401
                ELSE IF \E u \in named : ~u.is_active
                THEN resp'.status = 403
                ELSE /\ resp'.status = 200
                     /\ \E u \in named :
                           LET b == resp'.body[1]
                           IN  /\ b.token_type = "bearer"
                               /\ b.expires_in = ACCESS_TOKEN_EXPIRE_MINUTES * 60
                               /\ b.access_token.claims.sub = str(u.id)
                               /\ b.access_token.claims.token_type = "access"
                               /\ b.refresh_token.claims.sub = str(u.id)
                               /\ b.refresh_token.claims.token_type = "refresh"]_vars

\* an inactive user logged in with the right password and was answered 403
C16_Witness ==
    /\ resp.op = "login"
    /\ resp.status = 403
    /\ \E u \in users : /\ u.email = resp.req.email
                        /\ ~u.is_active
                        /\ verify_password(resp.req.password, u.hashed_password)

(***************************************************************************)
(* Category re-validation on update (checked under SpecRevalidate).        *)
(***************************************************************************)
\* the caller's expense that a request addresses
Addressed(r) == {e \in expenses : e.id = r.req.expense_id /\ e.user_id = r.caller}

Numeric(sub) == \E n \in 0..9 : str(n) = sub

\* C18: a refresh request is checked in the order token validity, token type,
\* subject, user existence, user active: an invalid token answers 401; a valid
\* token of another type answers 401; a valid refresh token with no subject or
\* a subject that is not a number answers 401; one whose subject is no user's
\* id answers 401; one whose subject is an inactive user's id answers 403;
\* only otherwise the answer is 200 with an access and a refresh token whose
\* subject is that user's id.  Each failure carries the detail of the first
\* check that fails.
C18_RefreshChecksUser ==
    [][resp'.op = "refresh" =>
         LET t == resp'.req.refresh_token
             sub == Get(t.claims, "sub")
             named == {u \in users : sub = Some(str(u.id))}
         IN  IF ~(t.key = SECRET_KEY /\ now <= t.claims.exp)
             THEN resp'.status = 401 /\ resp'.detail = "Invalid refresh token"
             ELSE IF Get(t.claims, "token_type") # Some("refresh")
             THEN /\ resp'.status = 401
                  /\ resp'.detail = "Invalid token type. Refresh token required."
             ELSE IF sub = None \/ ~Numeric(sub[1])
             THEN resp'.status = 401 /\ resp'.detail = "Invalid token payload"
             ELSE IF named = {}
             THEN resp'.status = 401 /\ resp'.detail = "User not found"
             ELSE IF \E u \in named : ~u.is_active
             THEN resp'.status = 403
             ELSE /\ resp'.status = 200
                  /\ resp'.body[1].access_token.claims.sub = sub[1]
                  /\ resp'.body[1].access_token.claims.token_type = "access"
                  /\ resp'.body[1].refresh_token.claims.sub = sub[1]
                  /\ resp'.body[1].refresh_token.claims.token_type = "refresh"]_vars

\* the refresh token issued to a user who has since been deactivated was
\* answered 403
C18_Witness ==
    /\ resp.op = "refresh"
    /\ resp.status = 403
    /\ held # None
    /\ resp.req.refresh_token = held[1].refresh_token
    /\ \E u \in users : str(u.id) = resp.req.refresh_token.claims.sub /\ ~u.is_active

(***************************************************************************)
(* Ownership, identity and deletion (checked under SpecOwn).               *)
(***************************************************************************)
Identity(rows) == {[id |-> e.id, user_id |-> e.user_id] : e \in rows}

\* no update changes the id or the user_id of an expense
UpdateKeepsIdentity ==
    resp'.op = "update_expense" =>
        /\ Identity(expenses') = Identity(expenses)
        /\ Cardinality(expenses') = Cardinality(expenses)

\* a successful delete removes the addressed expense of the caller and nothing
\* else
DeleteExact ==
    (resp'.op = "delete_expense" /\ resp'.status = 204) =>
        /\ Cardinality(Addressed(resp')) = 1
        /\ expenses' = expenses \ Addressed(resp')
        /\ users' = users
        /\ categories' = categories

\* C20 as claimed: no update request, whatever its body, changes an expense's
\* id or user_id; a successful delete removes exactly the addressed expense
\* and leaves every other expense, every category and every user unchanged;
\* and from then on the id names no expense of its owner, so that a later get
\* of that id by the owner answers 404 (stated for the request that follows
\* the delete: after it the owner still has no expense with that id).
C20_OwnershipImmutableDeleteExact ==
    [][/\ UpdateKeepsIdentity
       /\ DeleteExact
       /\ (resp.op = "delete_expense" /\ resp.status = 204) =>
             \A e \in expenses' :
                 ~(e.id = resp.req.expense_id /\ e.user_id = resp.caller)]_vars

\* C20 as amended: no update request, whatever its body, changes an expense's
\* id or user_id; a successful delete removes exactly the addressed expense
\* and leaves every other expense, every category and every user unchanged;
\* a get of an id that names no expense of the caller answers 404, as does the
\* get by the owner that directly follows the delete; and an id that names no
\* stored expense names one again only when a create is assigned that id.
C20_DeleteExactUntilIdReused ==
    [][/\ UpdateKeepsIdentity
       /\ DeleteExact
       /\ (resp'.op = "get_expense" /\ Addressed(resp') = {}) => resp'.status = 404
       /\ (resp.op = "delete_expense" /\ resp.status = 204
           /\ resp'.op = "get_expense" /\ resp'.caller = resp.caller
           /\ resp'.req.expense_id = resp.req.expense_id) => resp'.status = 404
       /\ \A e \in expenses' :
             (\A d \in expenses : d.id # e.id) =>
                 /\ resp'.op = "create_expense"
                 /\ resp'.status = 201
                 /\ resp'.body[1].id = e.id]_vars

\* the first user deleted an expense while the second user's expense stayed
C20_Witness ==
    /\ resp.op = "delete_expense"
    /\ resp.status = 204
    /\ resp.caller = 1
    /\ \A e \in expenses : e.id # resp.req.expense_id
    /\ \E e \in expenses : e.user_id = 2

====
